---- MODULE Spec2Model ----
(***************************************************************************)
(* Model of the image-processing serverless handler: the inference adapter *)
(* (runRoboflowInference), the tally aggregator (appendDataToGoogleSheet)  *)
(* and the request handler, in the two revisions kept in the repository:   *)
(*   "api"   src/api/process-image.js  (22-class vocabulary, real sheet)   *)
(*   "part0" src/unnamed/part_000      (nut vocabulary, simulated sheet)   *)
(* One submission is followed from its arrival to its response; the await  *)
(* points of the handler are the positions of pc.                          *)
(***************************************************************************)
EXTENDS Integers, Sequences, FiniteSets, TLC

(***************************************************************************)
(* JavaScript values, tagged by their type.                                *)
(***************************************************************************)
Undef == [t |-> "undefined"]
Null == [t |-> "null"]
Str(s) == [t |-> "string", s |-> s]
Num(n) == [t |-> "number", n |-> n]
Arr(a) == [t |-> "array", a |-> a]
Obj(f) == [t |-> "object", f |-> f]

\* ToBoolean: undefined, null, "" and 0 are falsy, every object and array truthy.
Truthy(x) ==
    CASE x.t = "undefined" -> FALSE
      [] x.t = "null" -> FALSE
      [] x.t = "string" -> x.s # ""
      [] x.t = "number" -> x.n # 0
      [] OTHER -> TRUE

\* Reading a property of null or undefined throws a TypeError.
Nullish(x) == x.t \in {"undefined", "null"}

\* x.k for a non-nullish x: an own field of an object, undefined otherwise.
Get(x, k) == IF x.t = "object" /\ k \in DOMAIN x.f THEN x.f[k] ELSE Undef

IsArray(x) == x.t = "array"

\* a || b
Or(a, b) == IF Truthy(a) THEN a ELSE b

\* The result of a computation that may throw.
Ok(v) == [threw |-> FALSE, val |-> v]
Throw(m) == [threw |-> TRUE, message |-> m]

ReadNullMsg == "Cannot read properties of null"

RECURSIVE Repeat(_, _)
Repeat(s, n) == IF n = 0 THEN "" ELSE s \o Repeat(s, n - 1)

Min(a, b) == IF a < b THEN a ELSE b

\* String.prototype.substring(0, n)
Substring0(s, n) == SubSeq(s, 1, Min(n, Len(s)))

\* String.prototype.startsWith
StartsWith(s, p) == Len(p) <= Len(s) /\ SubSeq(s, 1, Len(p)) = p

(***************************************************************************)
(* Configuration of src/api/process-image.js.                              *)
(***************************************************************************)
TARGET_CLASSES ==
    << "belt_buckle", "bitline_gap_available", "bitline_gap_not_available",
       "deep_hoggering", "feature_line_not_okay", "feature_line_okay",
       "finising_no_okay", "finising_okay", "foam_visible",
       "J_strip_lock_issue", "marking_present", "missing_part",
       "no_missing_part", "part_gap", "scratch_marks", "seam_uneven",
       "side_cover", "stain_marks", "stitch_open", "towel_bar",
       "track_cover", "wrinkle" >>

GOOGLE_SHEET_ID == "1-nYFSaufidji9l3OKfYeiyumQbGdmh5waFBbXapxMKc"

\* The value returned when ROBOFLOW_API_KEY is missing.
MockResults ==
    Arr(<< Obj([count_objects |-> Num(4),
                output_image |-> Obj([type |-> Str("base64"),
                                      value |-> Str("mock_base64_image_data")]),
                predictions |->
                    Obj([image |-> Obj([width |-> Num(1536), height |-> Num(2048)]),
                         predictions |->
                             Arr(<< Obj([class |-> Str("bitline_gap_not_available"),
                                         confidence |-> Num(78)]),
                                    Obj([class |-> Str("side_cover"),
                                         confidence |-> Num(78)]),
                                    Obj([class |-> Str("belt_buckle"),
                                         confidence |-> Num(76)]),
                                    Obj([class |-> Str("feature_line_not_okay"),
                                         confidence |-> Num(50)]) >>)])]) >>)

(***************************************************************************)
(* Configuration of src/unnamed/part_000.                                  *)
(***************************************************************************)
NutClasses == << "walnut", "almond" >>

GOOGLE_SHEET_ID_part0 == "1Y2C45lC-GzasdChXONHywO9d9t3pQxOaqSMdJaDNJNc"

mockResults ==
    Obj([predictions |->
             Arr(<< Obj([label |-> Str("walnut"), confidence |-> Num(97)]),
                    Obj([label |-> Str("almond"), confidence |-> Num(91)]),
                    Obj([label |-> Str("walnut"), confidence |-> Num(95)]),
                    Obj([label |-> Str("pistachio"), confidence |-> Num(85)]) >>),
         workflow_step |-> Str("object_detection"),
         image_dimensions |-> Str("1024x768")])

(***************************************************************************)
(* Extraction, src/api/process-image.js: the first wrapper of an array     *)
(* whose predictions.predictions is an array; nothing for a non-array.     *)
(***************************************************************************)
HasDeepPredictions(result) ==
    /\ Truthy(result)
    /\ Truthy(Get(result, "predictions"))
    /\ IsArray(Get(Get(result, "predictions"), "predictions"))

\* Variant of ScanWrappers: does not stop at the first match, the lists are merged.
RECURSIVE ScanWrappers_merging(_, _)
ScanWrappers_merging(results, i) ==
    IF i > Len(results) THEN << >>
    ELSE IF HasDeepPredictions(results[i])
         THEN Get(Get(results[i], "predictions"), "predictions").a
                  \o ScanWrappers_merging(results, i + 1)
         ELSE ScanWrappers_merging(results, i + 1)

RECURSIVE ScanWrappers(_, _)
ScanWrappers(results, i) ==
    IF i > Len(results) THEN << >>
    ELSE IF HasDeepPredictions(results[i])
         THEN Get(Get(results[i], "predictions"), "predictions").a
         ELSE ScanWrappers(results, i + 1)

\* Variant of ExtractPredictions: a top-level predictions list is taken first.
ExtractPredictions_flatFirst(roboflowResults) ==
    IF IsArray(Get(roboflowResults, "predictions"))
    THEN Get(roboflowResults, "predictions").a
    ELSE IF IsArray(roboflowResults) THEN ScanWrappers(roboflowResults.a, 1) ELSE << >>

ExtractPredictions(roboflowResults) ==
    IF IsArray(roboflowResults) THEN ScanWrappers(roboflowResults.a, 1) ELSE << >>

(***************************************************************************)
(* Counting, src/api/process-image.js.                                     *)
(***************************************************************************)
Includes(classes, label) ==
    label.t = "string" /\ \E i \in 1..Len(classes) : classes[i] = label.s

ClassSet == {TARGET_CLASSES[i] : i \in 1..Len(TARGET_CLASSES)}

ZeroCounts == [c \in ClassSet |-> 0]

\* const label = d.class || d.label
LabelOf(d) == Or(Get(d, "class"), Get(d, "label"))

\* Variant of CountOne: the total is incremented for known labels only.
CountOne_knownOnly(acc, d) ==
    LET label == LabelOf(d)
    IN  IF Includes(TARGET_CLASSES, label)
        THEN [classCounts |-> [acc.classCounts EXCEPT ![label.s] = @ + 1],
              totalDetections |-> acc.totalDetections + 1]
        ELSE acc

\* One call of the forEach callback on record d.
CountOne(acc, d) ==
    LET label == LabelOf(d)
    IN  [classCounts |->
             IF Includes(TARGET_CLASSES, label)
             THEN [acc.classCounts EXCEPT ![label.s] = @ + 1]
             ELSE acc.classCounts,
         totalDetections |-> acc.totalDetections + 1]

RECURSIVE CountFrom(_, _, _)
CountFrom(predictions, i, acc) ==
    IF i > Len(predictions) THEN Ok(acc)
    ELSE IF Nullish(predictions[i]) THEN Throw(ReadNullMsg \o " (reading 'class')")
         ELSE CountFrom(predictions, i + 1, CountOne(acc, predictions[i]))

CountDetections(predictions) ==
    CountFrom(predictions, 1, [classCounts |-> ZeroCounts, totalDetections |-> 0])

\* Variant of BuildRow: the total column is left out.
BuildRow_noTotal(timestamp, fileName, counted) ==
    << Str(timestamp), fileName >>
        \o [i \in 1..Len(TARGET_CLASSES) |-> Num(counted.classCounts[TARGET_CLASSES[i]])]

\* [timestamp, fileName, ...22 counts, total]
BuildRow(timestamp, fileName, counted) ==
    << Str(timestamp), fileName >>
        \o [i \in 1..Len(TARGET_CLASSES) |-> Num(counted.classCounts[TARGET_CLASSES[i]])]
        \o << Num(counted.totalDetections) >>

\* appendDataToGoogleSheet up to its credential check: extraction, counting, row.
Aggregate(roboflowResults, fileName, timestamp) ==
    LET counted == CountDetections(ExtractPredictions(roboflowResults))
    IN  IF counted.threw THEN Throw(counted.message)
        ELSE Ok([dataRow |-> BuildRow(timestamp, fileName, counted.val),
                 classCounts |-> counted.val.classCounts,
                 totalDetections |-> counted.val.totalDetections])

(***************************************************************************)
(* Extraction, counting and row of src/unnamed/part_000.                   *)
(***************************************************************************)
NotAFunctionMsg == "predictions.filter is not a function"

\* roboflowResults.predictions || roboflowResults.detections || []
ExtractPredictions_part0(roboflowResults) ==
    Or(Or(Get(roboflowResults, "predictions"), Get(roboflowResults, "detections")),
       Arr(<< >>))

\* predictions.filter(d => d.label === name).length, on an array without nullish entries
RECURSIVE FilterCount(_, _, _)
FilterCount(list, i, name) ==
    IF i > Len(list) THEN 0
    ELSE (IF Get(list[i], "label") = Str(name) THEN 1 ELSE 0)
             + FilterCount(list, i + 1, name)

Aggregate_part0(roboflowResults, fileName, timestamp) ==
    LET p == ExtractPredictions_part0(roboflowResults)
    IN  IF ~IsArray(p) THEN Throw(NotAFunctionMsg)
        ELSE IF \E i \in 1..Len(p.a) : Nullish(p.a[i])
             THEN Throw(ReadNullMsg \o " (reading 'label')")
        ELSE LET walnutCount == FilterCount(p.a, 1, "walnut")
                 almondCount == FilterCount(p.a, 1, "almond")
                 totalDetections == Len(p.a)
             IN  Ok([dataRow |-> << Str(timestamp), fileName, Num(walnutCount),
                                    Num(almondCount), Num(totalDetections) >>,
                     classCounts |-> [walnut |-> walnutCount, almond |-> almondCount],
                     totalDetections |-> totalDetections])

(***************************************************************************)
(* Persistence outcome, src/api/process-image.js.                          *)
(***************************************************************************)
MissingKeyStatus == "Failed to Authenticate (Missing Key)"
SuccessStatus == "Success (Wrote to Sheet via Google API)"
PermissionStatus ==
    "Failed to Write: Permission or Range error. Check if Service Account email has Editor access and if Sheet1 exists."

ReasonLimit == 50

\* Variant of FailureStatus: the message is not truncated.
FailureStatus_untruncated(error) ==
    IF error.code = Num(400) \/ error.code = Num(403)
    THEN PermissionStatus
    ELSE "Failed to Write: " \o error.message \o "... (API Failure)"

\* The catch block: error.code 400 or 403 (as numbers) is the permission class.
FailureStatus(error) ==
    IF error.code = Num(400) \/ error.code = Num(403)
    THEN PermissionStatus
    ELSE "Failed to Write: " \o Substring0(error.message, ReasonLimit) \o "... (API Failure)"

\* The credential texts the environment may hold, and what JSON.parse makes of them.
ValidCredsText == "{\"client_email\":\"svc@proj.iam\",\"private_key\":\"-----BEGIN-----\"}"
NoKeyCredsText == "{\"client_email\":\"svc@proj.iam\"}"
NullCredsText == "null"
BadCredsText == "{client_email"

JSONParse(text) ==
    CASE text = ValidCredsText ->
             Ok(Obj([client_email |-> Str("svc@proj.iam"),
                     private_key |-> Str("-----BEGIN-----")]))
      [] text = NoKeyCredsText -> Ok(Obj([client_email |-> Str("svc@proj.iam")]))
      [] text = NullCredsText -> Ok(Null)
      [] OTHER -> Throw("Expected property name or '}' in JSON at position 1")

\* JSON.parse(CREDENTIALS_JSON), creds.client_email, creds.private_key.replace(...)
PrepareAuth(credentialsJson) ==
    LET parsed == JSONParse(credentialsJson.s)
    IN  IF parsed.threw THEN Throw(parsed.message)
        ELSE IF Nullish(parsed.val)
             THEN Throw("Cannot read properties of null (reading 'client_email')")
        ELSE IF Nullish(Get(parsed.val, "private_key"))
             THEN Throw("Cannot read properties of undefined (reading 'replace')")
        ELSE IF Get(parsed.val, "private_key").t # "string"
             THEN Throw("creds.private_key.replace is not a function")
        ELSE Ok(parsed.val)

SheetResult(status, a) ==
    [status |-> status, row_data |-> a.dataRow, class_counts |-> a.classCounts,
     total_count |-> a.totalDetections]

(***************************************************************************)
(* runRoboflowInference: the key check and the error wrapping.             *)
(***************************************************************************)
\* Variant of KeyMissing: only an unset key counts as missing.
KeyMissing_undefinedOnly(key) == key = Undef

\* src/api/process-image.js: if (!ROBOFLOW_API_KEY)
KeyMissing(key) == ~Truthy(key)

\* src/unnamed/part_000: !ROBOFLOW_API_KEY || ROBOFLOW_API_KEY.length === 0
isKeyMissing(key) == ~Truthy(key) \/ (key.t = "string" /\ Len(key.s) = 0)

InferencePrefix == "Roboflow inference failed: "
BadResponseMsg == "Roboflow API call failed with bad response."

\* Variant of WrapInferenceError: the error is rethrown as it is.
WrapInferenceError_bare(message) == message

\* catch (error) { throw new Error(`Roboflow inference failed: ${error.message}`) }
WrapInferenceError(message) == InferencePrefix \o message

\* if (!response.ok) throw new Error(data.message || '...'), inside the try
RejectionMessage(data) ==
    IF Nullish(data) THEN ReadNullMsg \o " (reading 'message')"
    ELSE LET m == Or(Get(data, "message"), Str(BadResponseMsg)) IN m.s

(***************************************************************************)
(* Bounds and the inputs drawn within them.                                *)
(***************************************************************************)
MaxDetections == 2
MaxWrappers == 3
MaxMsgLen == 60

RECURSIVE SeqsUpTo(_, _)
SeqsUpTo(S, n) ==
    IF n = 0 THEN {<< >>}
    ELSE LET shorter == SeqsUpTo(S, n - 1)
         IN  shorter \cup {Append(q, x) : q \in {r \in shorter : Len(r) = n - 1}, x \in S}

\* Detection records as a provider may send them: well formed under either
\* field name, with both, with none, or absent (null).
Records ==
    { Null, Obj(<< >>),
      Obj([class |-> Str("belt_buckle")]),
      Obj([label |-> Str("side_cover")]),
      Obj([label |-> Str("walnut")]),
      Obj([class |-> Str("belt_buckle"), label |-> Str("walnut")]) }

DetectionLists == SeqsUpTo(Records, MaxDetections)

Wrapper(list) == Obj([predictions |-> Obj([predictions |-> Arr(list)])])

\* Elements of a workflow response array: without a nested list, or with one.
Wrappers ==
    { Null,
      Obj([predictions |-> Obj([predictions |-> Str("none")])]),
      Wrapper(<< >>),
      Wrapper(<< Obj([class |-> Str("belt_buckle")]) >>),
      Wrapper(<< Obj([label |-> Str("walnut")]), Obj([label |-> Str("side_cover")]) >>) }

\* Further elements without a nested list: no predictions field, or the list
\* one level too high.
OddWrappers ==
    { Obj(<< >>),
      Obj([predictions |-> Arr(<< Obj([class |-> Str("side_cover")]) >>)]) }

\* Payloads of a successful provider response.
RawResults ==
    { Null, Str("done"), Obj(<< >>),
      Obj([predictions |-> Str("none")]),
      Obj([predictions |-> Obj([predictions |-> Arr(<< Obj([class |-> Str("belt_buckle")]) >>)])]) }
    \cup {Obj([predictions |-> Arr(l)]) : l \in DetectionLists}
    \cup {Obj([detections |-> Arr(l)]) : l \in {m \in DetectionLists : Len(m) <= 1}}
    \cup {Arr(<< Wrapper(l) >>) : l \in DetectionLists}
    \cup {Arr(ws) : ws \in SeqsUpTo(Wrappers, MaxWrappers)}
    \cup {Arr(<< w, Wrapper(<< Obj([class |-> Str("belt_buckle")]) >>) >>) : w \in OddWrappers}

\* Payloads of a non-success provider response.
ErrorPayloads ==
    { Obj([message |-> Str("Unauthorized api_key")]),
      Obj([message |-> Str("")]),
      Obj(<< >>),
      Null }

TransportMessages == {"fetch failed", "Unauthorized api_key", ""}
JsonParseMessages == {"Unexpected token < in JSON at position 0"}

ApiKeys == {Undef, Str(""), Str("rf_live_key")}
CredentialValues ==
    {Undef, Str(""), Str(ValidCredsText), Str(NoKeyCredsText), Str(NullCredsText),
     Str(BadCredsText)}

Methods == {"POST", "GET"}
Bodies ==
    {Undef}
    \cup {Obj([image |-> i, fileName |-> Str("seat.jpg")]) :
              i \in {Str(""), Str("aGVsbG8="), Str("d29ybGQ=")}}
    \cup {Obj([image |-> Str("aGVsbG8=")]), Obj([fileName |-> Str("seat.jpg")])}

Timestamps == {"2025-01-01T00:00:00.000Z", "2025-06-30T12:00:00.000Z"}

\* Errors the sheet append may reject with.
StoreErrorCodes == {Num(400), Num(403), Num(404), Undef}
StoreErrorMessages ==
    {Repeat("e", n) : n \in {0, ReasonLimit, ReasonLimit + 1, MaxMsgLen}}
    \cup {"Permission or Range error. Check if Service Account email has Editor access and if Sheet1 exists."}
StoreErrors == [code : StoreErrorCodes, message : StoreErrorMessages]

ImportFailureMsg == "Cannot find package 'googleapis'"

(***************************************************************************)
(* State of one submission.                                                *)
(***************************************************************************)
VARIABLES
    rev,               \* which revision's handler serves the request
    ROBOFLOW_API_KEY,  \* process.env.ROBOFLOW_API_KEY
    CREDENTIALS_JSON,  \* process.env.GOOGLE_CREDENTIALS_JSON
    pc,                \* the handler's position: idle, an await point, or done
    req,               \* the request: method and body
    responseOk,        \* response.ok of the provider's answer
    roboflowResults,   \* what runRoboflowInference returned
    inferState,        \* notrun | returned | threw
    inferFailure,      \* which branch of runRoboflowInference threw, and its cause
    predictions,       \* the extracted prediction list
    agg,               \* dataRow, classCounts, totalDetections held across the awaits
    storeError,        \* the error caught by appendDataToGoogleSheet's catch block
    sheetResponse,     \* what appendDataToGoogleSheet returned
    res,               \* the HTTP response
    providerCalls,     \* fetch calls issued to the provider
    storeWrites        \* sheet appends issued

env == << rev, ROBOFLOW_API_KEY, CREDENTIALS_JSON >>
run == << pc, req, responseOk, roboflowResults, inferState, inferFailure,
          predictions, agg, storeError, sheetResponse, res, providerCalls,
          storeWrites >>
vars == << env, run >>

NoResponse == [status |-> 0]
NoFailure == [kind |-> "none", cause |-> ""]
NoAgg == [dataRow |-> << >>]
NoSheetResponse == [status |-> ""]
NoError == [code |-> Undef]

Fresh ==
    /\ pc = "idle"
    /\ req = [method |-> "", body |-> Undef]
    /\ responseOk = FALSE
    /\ roboflowResults = Undef
    /\ inferState = "notrun"
    /\ inferFailure = NoFailure
    /\ predictions = Undef
    /\ agg = NoAgg
    /\ storeError = NoError
    /\ sheetResponse = NoSheetResponse
    /\ res = NoResponse
    /\ providerCalls = 0
    /\ storeWrites = 0

Init ==
    /\ rev \in {"api", "part0"}
    /\ ROBOFLOW_API_KEY \in ApiKeys
    /\ CREDENTIALS_JSON \in CredentialValues
    /\ Fresh

Response(status, body) == [status |-> status, body |-> body]

\* The handler's catch block.
Error500(message) ==
    Response(500, [message |-> "Internal server error: " \o message, error |-> message])

NoImageMsg ==
    IF rev = "api" THEN "No image data provided in request body."
    ELSE "No image data provided."

Success200(sheet) ==
    IF rev = "api"
    THEN Response(200, [message |-> "Image processed. Sheet update logic executed.",
                        sheetStatus |-> sheet.status,
                        results |-> sheet.row_data,
                        classCounts |-> sheet.class_counts,
                        totalCount |-> sheet.total_count])
    ELSE Response(200, [message |-> "Image processed and sheet updated successfully.",
                        sheetStatus |-> sheet.status,
                        results |-> sheet.row_data])

fileName == Get(req.body, "fileName")

\* Whether runRoboflowInference takes its mock branch.
MockMode == IF rev = "api" THEN KeyMissing(ROBOFLOW_API_KEY) ELSE isKeyMissing(ROBOFLOW_API_KEY)

\* The handler up to its first await: method gate, body, image check, and the
\* start of runRoboflowInference (the mock delay or the fetch).
Receive(method, body) ==
    /\ pc = "idle"
    /\ req' = [method |-> method, body |-> body]
    /\ IF method # "POST"
       THEN /\ res' = Response(405, [message |-> "Method " \o method \o " not allowed",
                                     allow |-> "POST"])
            /\ pc' = "done"
            /\ UNCHANGED providerCalls
       ELSE IF Nullish(body)
       THEN /\ res' = Error500("Cannot destructure property 'image' of 'req.body' as it is undefined.")
            /\ pc' = "done"
            /\ UNCHANGED providerCalls
       ELSE IF ~Truthy(Get(body, "image"))
       THEN /\ res' = Response(400, [message |-> NoImageMsg])
            /\ pc' = "done"
            /\ UNCHANGED providerCalls
       ELSE IF MockMode
       THEN /\ pc' = "awaitMockDelay"
            /\ UNCHANGED << res, providerCalls >>
       ELSE /\ pc' = "awaitFetch"
            /\ providerCalls' = providerCalls + 1
            /\ UNCHANGED res
    /\ UNCHANGED << env, responseOk, roboflowResults, inferState, inferFailure,
                    predictions, agg, storeError, sheetResponse, storeWrites >>

\* runRoboflowInference throws; the handler's catch answers 500.
InferenceThrew(kind, cause) ==
    /\ inferState' = "threw"
    /\ inferFailure' = [kind |-> kind, cause |-> cause]
    /\ res' = Error500(WrapInferenceError(cause))
    /\ pc' = "done"
    /\ UNCHANGED << env, req, responseOk, roboflowResults, predictions, agg,
                    storeError, sheetResponse, providerCalls, storeWrites >>

\* runRoboflowInference returns; the handler calls appendDataToGoogleSheet, which
\* runs to its first await, to its early return, or to an exception.
ContinueWithResults(results, timestamp) ==
    /\ roboflowResults' = results
    /\ inferState' = "returned"
    /\ IF rev = "part0" /\ ~Truthy(results)
       THEN /\ res' = Response(500, [message |-> "Empty response received from Roboflow."])
            /\ pc' = "done"
            /\ UNCHANGED << predictions, agg, sheetResponse >>
       ELSE LET a == IF rev = "api" THEN Aggregate(results, fileName, timestamp)
                     ELSE Aggregate_part0(results, fileName, timestamp)
            IN  /\ predictions' = IF rev = "api" THEN Arr(ExtractPredictions(results))
                                  ELSE ExtractPredictions_part0(results)
                /\ IF a.threw
                   THEN /\ res' = Error500(a.message)
                        /\ pc' = "done"
                        /\ UNCHANGED << agg, sheetResponse >>
                   ELSE /\ agg' = a.val
                        /\ IF rev = "part0"
                           THEN /\ pc' = "awaitSheetDelay"
                                /\ UNCHANGED << res, sheetResponse >>
                           ELSE IF ~Truthy(CREDENTIALS_JSON)
                           THEN /\ sheetResponse' = SheetResult(MissingKeyStatus, a.val)
                                /\ res' = Success200(SheetResult(MissingKeyStatus, a.val))
                                /\ pc' = "done"
                           ELSE /\ pc' = "awaitImport"
                                /\ UNCHANGED << res, sheetResponse >>
    /\ UNCHANGED << env, req, responseOk, inferFailure, storeError, providerCalls,
                    storeWrites >>

\* Mock branch: the 1500 ms delay elapses and the fixed result is returned.
MockDelayFires ==
    /\ pc = "awaitMockDelay"
    /\ \E timestamp \in Timestamps :
           ContinueWithResults(IF rev = "api" THEN MockResults ELSE mockResults, timestamp)

\* await fetch(...) rejects: the request could not complete.
FetchRejects(message) ==
    /\ pc = "awaitFetch"
    /\ InferenceThrew("transport", message)

\* await fetch(...) resolves with a response, successful or not.
FetchResolves(ok) ==
    /\ pc = "awaitFetch"
    /\ pc' = "awaitJson"
    /\ responseOk' = ok
    /\ UNCHANGED << env, req, roboflowResults, inferState, inferFailure, predictions,
                    agg, storeError, sheetResponse, res, providerCalls, storeWrites >>

\* await response.json() rejects: the body is not JSON.
JsonRejects(message) ==
    /\ pc = "awaitJson"
    /\ InferenceThrew("parse", message)

\* await response.json() resolves: a non-success response throws the provider's
\* message inside the try, a successful one returns the payload.
JsonResolves(data, timestamp) ==
    /\ pc = "awaitJson"
    /\ IF ~responseOk
       THEN InferenceThrew("provider", RejectionMessage(data))
       ELSE ContinueWithResults(data, timestamp)

\* appendDataToGoogleSheet returns with the given status; the handler answers 200.
Finish(status) ==
    /\ sheetResponse' = SheetResult(status, agg)
    /\ res' = Success200(SheetResult(status, agg))
    /\ pc' = "done"
    /\ UNCHANGED << env, req, responseOk, roboflowResults, inferState, inferFailure,
                    predictions, agg, providerCalls, storeWrites >>

\* The catch block: the status is derived from the error, then the function returns.
Caught(error) ==
    /\ storeError' = error
    /\ Finish(FailureStatus(error))

\* await import('googleapis') rejects, inside the try.
ImportRejects ==
    /\ pc = "awaitImport"
    /\ Caught([code |-> Str("ERR_MODULE_NOT_FOUND"), message |-> ImportFailureMsg])

\* await import('googleapis') resolves: the credentials are parsed and the append
\* is issued, or the parsing throws into the catch block.
ImportResolves ==
    /\ pc = "awaitImport"
    /\ LET auth == PrepareAuth(CREDENTIALS_JSON)
       IN  IF auth.threw
           THEN Caught([code |-> Undef, message |-> auth.message])
           ELSE /\ storeWrites' = storeWrites + 1
                /\ pc' = "awaitAppend"
                /\ UNCHANGED << env, req, responseOk, roboflowResults, inferState,
                                inferFailure, predictions, agg, storeError,
                                sheetResponse, res, providerCalls >>

\* await sheets.spreadsheets.values.append(...) resolves.
AppendResolves ==
    /\ pc = "awaitAppend"
    /\ Finish(SuccessStatus)
    /\ UNCHANGED storeError

\* Variant of AppendRejects: the append is issued again after a rejection.
AppendRejects_retry(error) ==
    /\ pc = "awaitAppend"
    /\ storeWrites < 2
    /\ storeWrites' = storeWrites + 1
    /\ storeError' = error
    /\ UNCHANGED << env, pc, req, responseOk, roboflowResults, inferState, inferFailure,
                    predictions, agg, sheetResponse, res, providerCalls >>

\* await sheets.spreadsheets.values.append(...) rejects with error.
AppendRejects(error) ==
    /\ pc = "awaitAppend"
    /\ Caught(error)

\* src/unnamed/part_000: the simulated sheet delay elapses.
SheetDelayFires ==
    /\ pc = "awaitSheetDelay"
    /\ sheetResponse' = [status |-> "Success", row_data |-> agg.dataRow]
    /\ res' = Success200([status |-> "Success", row_data |-> agg.dataRow])
    /\ pc' = "done"
    /\ UNCHANGED << env, req, responseOk, roboflowResults, inferState, inferFailure,
                    predictions, agg, storeError, providerCalls, storeWrites >>

\* The next submission: invocations share no state but the configuration.
NewSubmission ==
    /\ pc = "done"
    /\ pc' = "idle"
    /\ req' = [method |-> "", body |-> Undef]
    /\ responseOk' = FALSE
    /\ roboflowResults' = Undef
    /\ inferState' = "notrun"
    /\ inferFailure' = NoFailure
    /\ predictions' = Undef
    /\ agg' = NoAgg
    /\ storeError' = NoError
    /\ sheetResponse' = NoSheetResponse
    /\ res' = NoResponse
    /\ providerCalls' = 0
    /\ storeWrites' = 0
    /\ UNCHANGED env

Next ==
    \/ \E method \in Methods, body \in Bodies : Receive(method, body)
    \/ MockDelayFires
    \/ \E message \in TransportMessages : FetchRejects(message)
    \/ \E ok \in BOOLEAN : FetchResolves(ok)
    \/ \E message \in JsonParseMessages : JsonRejects(message)
    \/ \E timestamp \in Timestamps :
           \E data \in (IF responseOk THEN RawResults ELSE ErrorPayloads) :
               JsonResolves(data, timestamp)
    \/ ImportRejects
    \/ ImportResolves
    \/ AppendResolves
    \/ \E error \in StoreErrors : AppendRejects(error)
    \/ SheetDelayFires
    \/ NewSubmission

Spec == Init /\ [][Next]_vars

(***************************************************************************)
(* Vocabulary of the claims.                                               *)
(***************************************************************************)
\* The aggregator ran its extraction on the inference result.
Extracted == inferState = "returned" /\ predictions # Undef

\* The aggregator completed its counting and built its row.
Counted == agg # NoAgg

\* A wrapper whose nested predictions field holds a list.
HoldsList(w) ==
    /\ w.t = "object"
    /\ "predictions" \in DOMAIN w.f
    /\ w.f.predictions.t = "object"
    /\ "predictions" \in DOMAIN w.f.predictions.f
    /\ w.f.predictions.f.predictions.t = "array"

NestedList(w) == w.f.predictions.f.predictions.a

\* A flat object with a top-level field holding the detection list directly.
FlatWithList(raw) ==
    /\ raw.t = "object"
    /\ "predictions" \in DOMAIN raw.f
    /\ raw.f.predictions.t = "array"

Vocabulary == IF rev = "api" THEN TARGET_CLASSES ELSE NutClasses

RECURSIVE SumCounts(_, _, _)
SumCounts(counts, classes, i) ==
    IF i > Len(classes) THEN 0
    ELSE counts[classes[i]] + SumCounts(counts, classes, i + 1)

\* The credential is absent or empty.
Missing(credential) == credential = Undef \/ credential = Str("")

\* A record with a label inside the vocabulary of process-image.js.
InVocabulary(d) ==
    /\ d.t = "object"
    /\ \E i \in 1..Len(TARGET_CLASSES) :
           \/ ("class" \in DOMAIN d.f /\ d.f.class = Str(TARGET_CLASSES[i]))
           \/ ("class" \notin DOMAIN d.f /\ "label" \in DOMAIN d.f
                  /\ d.f.label = Str(TARGET_CLASSES[i]))

(***************************************************************************)
(* C3: process-image.js, for a raw result that is an array of wrappers:    *)
(* the extracted list is exactly the nested list of the first wrapper, in  *)
(* array order, whose nested predictions field holds a list; wrappers      *)
(* before it are skipped and the lists of later wrappers are ignored, even *)
(* when the first matching list is empty.                                  *)
(***************************************************************************)
C3_FirstWrapperList ==
    (rev = "api" /\ Extracted /\ IsArray(roboflowResults)) =>
        LET ws == roboflowResults.a
        IN  \A i \in 1..Len(ws) :
                (HoldsList(ws[i]) /\ \A j \in 1..(i - 1) : ~HoldsList(ws[j]))
                    => predictions = Arr(NestedList(ws[i]))

\* A wrapper without a list is skipped, the next holds an empty list, and a later
\* wrapper's non-empty list is ignored.
C3_Witness ==
    /\ rev = "api" /\ Extracted /\ IsArray(roboflowResults)
    /\ Len(roboflowResults.a) = 3
    /\ ~HoldsList(roboflowResults.a[1])
    /\ HoldsList(roboflowResults.a[2]) /\ NestedList(roboflowResults.a[2]) = << >>
    /\ HoldsList(roboflowResults.a[3]) /\ NestedList(roboflowResults.a[3]) # << >>
    /\ predictions = Arr(<< >>)

(***************************************************************************)
(* C4: after counting, the total equals the length of the extracted        *)
(* detection list and the sum of the per-vocabulary counts is at most the  *)
(* total (both revisions).                                                 *)
(***************************************************************************)
C4_SumAtMostTotal ==
    Counted =>
        /\ agg.totalDetections = Len(predictions.a)
        /\ SumCounts(agg.classCounts, Vocabulary, 1) <= agg.totalDetections

\* Two detections, one of them outside the vocabulary.
C4_Witness ==
    /\ rev = "api" /\ Counted
    /\ agg.totalDetections = 2
    /\ SumCounts(agg.classCounts, Vocabulary, 1) = 1
    /\ \E i \in 1..2 : ~InVocabulary(predictions.a[i])

(***************************************************************************)
(* C5: every row returned by appendDataToGoogleSheet has 3 + k entries for *)
(* a vocabulary of k labels: timestamp, submission identifier, the k       *)
(* counts in vocabulary order, total; whatever the detections and the      *)
(* persistence outcome.                                                    *)
(***************************************************************************)
C5_RowLength ==
    (sheetResponse # NoSheetResponse) =>
        LET row == sheetResponse.row_data
            k == Len(Vocabulary)
        IN  /\ Len(row) = 3 + k
            /\ row[1].t = "string" /\ row[1].s \in Timestamps
            /\ row[2] = fileName
            /\ \A i \in 1..k : row[2 + i] = Num(agg.classCounts[Vocabulary[i]])
            /\ row[3 + k] = Num(agg.totalDetections)

\* A row returned with a failed write and with more detections than columns filled.
C5_Witness ==
    /\ rev = "api" /\ sheetResponse # NoSheetResponse
    /\ storeError # NoError
    /\ agg.totalDetections = 2
    /\ SumCounts(agg.classCounts, Vocabulary, 1) = 0
    /\ Len(sheetResponse.row_data) = 25

PermissionClass(error) == error.code \in {Num(400), Num(403)}

GenericBound == Len("Failed to Write: ") + ReasonLimit + Len("... (API Failure)")

C8_WriteFailureStatus ==
    (rev = "api" /\ storeWrites = 1 /\ storeError # NoError) =>
        /\ StartsWith(sheetResponse.status, "Failed to Write: ")
        /\ PermissionClass(storeError) <=> sheetResponse.status = PermissionStatus
        /\ ~PermissionClass(storeError) => Len(sheetResponse.status) <= GenericBound
        /\ sheetResponse.row_data = agg.dataRow
        /\ sheetResponse.class_counts = agg.classCounts
        /\ sheetResponse.total_count = agg.totalDetections
        /\ res.status = 200 /\ res.body.sheetStatus = sheetResponse.status

\* A generic write error whose message is longer than the limit.
C8_Witness ==
    /\ rev = "api" /\ storeWrites = 1 /\ storeError # NoError
    /\ ~PermissionClass(storeError)
    /\ Len(storeError.message) > ReasonLimit
    /\ agg.totalDetections > 0

(***************************************************************************)
(* C9 as claimed: a transport failure of the inference call propagates     *)
(* with a prefix that a provider-rejected failure does not carry.          *)
(***************************************************************************)
C9_DistinguishingPrefix ==
    (inferState = "threw") =>
        /\ inferFailure.kind = "transport" => StartsWith(res.body.error, InferencePrefix)
        /\ inferFailure.kind = "provider" => ~StartsWith(res.body.error, InferencePrefix)

(***************************************************************************)
(* C9 as amended: a transport failure and a provider-rejected failure are  *)
(* both fatal to the request (500) and both propagate as the same prefix   *)
(* "Roboflow inference failed: " followed by the underlying message (the   *)
(* transport error's message, or the provider's message field, or the      *)
(* default text when the provider sent none).                              *)
(***************************************************************************)
ProviderText(m) == m \in {"Unauthorized api_key", BadResponseMsg}
                       \/ StartsWith(m, ReadNullMsg)

C9_SamePrefixBothKinds ==
    (inferState = "threw") =>
        /\ res.status = 500
        /\ res.body.error = InferencePrefix \o inferFailure.cause
        /\ res.body.message = "Internal server error: " \o res.body.error
        /\ inferFailure.kind = "transport" => inferFailure.cause \in TransportMessages
        /\ inferFailure.kind = "provider" => ProviderText(inferFailure.cause)

\* The provider rejected the request and its message arrived behind the prefix.
C9_Witness ==
    /\ inferState = "threw"
    /\ inferFailure.kind = "provider"
    /\ res.body.error = InferencePrefix \o "Unauthorized api_key"

(***************************************************************************)
(* C10: in one submission the provider is called at most once and the      *)
(* store write attempted at most once, never at the same time, and the     *)
(* store write only after the inference step returned a result: none after *)
(* an inference failure, a non-POST method or a missing image.             *)
(***************************************************************************)
C10_AtMostOnceInOrder ==
    /\ providerCalls <= 1
    /\ storeWrites <= 1
    /\ pc \in {"awaitFetch", "awaitJson", "awaitMockDelay"} => storeWrites = 0
    /\ pc = "awaitAppend" => inferState = "returned"
    /\ storeWrites > 0 => inferState = "returned"
    /\ inferState = "threw" => storeWrites = 0
    /\ res.status \in {400, 405} => (providerCalls = 0 /\ storeWrites = 0)

\* A submission that called the provider, then wrote to the store, and ended.
C10_Witness ==
    /\ pc = "done"
    /\ providerCalls = 1
    /\ storeWrites = 1
    /\ res.status = 200

\* The nested list of the first wrapper holding one, the empty list when none does.
FirstList(ws) ==
    IF \E i \in 1..Len(ws) : HoldsList(ws[i])
    THEN NestedList(ws[CHOOSE i \in 1..Len(ws) :
                           HoldsList(ws[i]) /\ \A j \in 1..(i - 1) : ~HoldsList(ws[j])])
    ELSE << >>

\* Extraction and counting raised no error.
NoAggregationError == Counted /\ res.status # 500

C1_AggregatorFailuresAbsorbed ==
    (rev = "api" /\ inferState = "returned") =>
        /\ res.status # 500
        /\ pc = "done" =>
               /\ res.status = 200
               /\ sheetResponse # NoSheetResponse
               /\ res.body.totalCount = agg.totalDetections

(***************************************************************************)
(* C7 as claimed: process-image.js, with the store credential absent and   *)
(* the inference step returned: no store write is attempted, the function  *)
(* returns the Missing-Credential status with the populated row, the       *)
(* counts and the total, and the request completes with 200.               *)
(***************************************************************************)
C7_MissingCredentialOutcome ==
    (rev = "api" /\ Missing(CREDENTIALS_JSON) /\ inferState = "returned") =>
        /\ storeWrites = 0
        /\ pc = "done"
        /\ sheetResponse.status = MissingKeyStatus
        /\ res.status = 200
        /\ Counted
        /\ sheetResponse.row_data = agg.dataRow
        /\ Len(sheetResponse.row_data) = 3 + Len(TARGET_CLASSES)
        /\ res.body.classCounts = agg.classCounts
        /\ res.body.totalCount = agg.totalDetections

====
